---- MODULE Spec2Model ----
(***************************************************************************)
(* Nexora media-analysis pipeline: process_video_pipeline,                 *)
(* process_image_pipeline, the report store ("scans" collection) and the   *)
(* get_results lookup.                                                     *)
(*                                                                         *)
(* Units.  Python floats are modelled as exact fixed-point numbers:        *)
(*   ai_probability      thousandths          (0.9   -> 900)               *)
(*   fft_anomaly         hundredths           (70.0  -> 7000)              *)
(*   confidence          a fraction num/den of thousandths of a percent    *)
(*   confidence_score    hundredths of a percent (round(confidence, 2))    *)
(*   fps                 hundredths of a frame per second                  *)
(*   timestamp           hundredths of a second (round(t, 2))              *)
(***************************************************************************)
EXTENDS Integers, Sequences, FiniteSets, TLC

\* ------------------------------------------------------------------ bounds

\* Largest number of frames a modelled video stream decodes.
MaxFrames == 3

\* ------------------------------------------------------- program constants

\* range(5) of the video pipeline's mock mode.
MockFrames == 5
\* "cap.get(cv2.CAP_PROP_FPS) or 30", in hundredths of a frame per second.
DefaultFps == 3000
\* min(final_score, 99.9), in thousandths of a percent.
ConfidenceCap == 99900
\* "confidence > 50", in thousandths of a percent.
VerdictThreshold == 50000
\* "ai_conf > 0.5" of the image pipeline's mock mode, in thousandths.
MockAiThreshold == 500
\* "return 0.5" of get_ai_prediction's outer except, in thousandths.
AiErrorScore == 500
\* avg_ai * 100 * 0.7 with avg_ai in thousandths, result in thousandths of a percent.
AiWeight == 70
\* avg_fft * 0.01 * 100 * 0.3 with avg_fft in hundredths, result in thousandths of a percent.
FftWeight == 3
\* ai_conf * 100 of the image mock mode: thousandths -> thousandths of a percent.
MockScale == 100

\* The one scan id the background task was dispatched with.
ScanId == "scan1"

\* ------------------------------------------------------------ arithmetic

\* Python round() of the non-negative fraction n/d to an integer (ties to even).
RoundHalfEven(n, d) ==
    LET q == n \div d
        r == n % d
    IN  IF 2 * r > d THEN q + 1
        ELSE IF 2 * r < d THEN q
        ELSE IF q % 2 = 0 THEN q ELSE q + 1

\* round(confidence, 2): thousandths of a percent (num/den) -> hundredths.
Round2(c) == RoundHalfEven(c.num, 10 * c.den)

\* Time left to the end of the longest stream instead of time elapsed.
TimestampFromEnd(frame, f) == RoundHalfEven((MaxFrames - frame) * 10000, f)

\* round(current_frame / fps, 2) in hundredths of a second; fps in hundredths.
Timestamp(frame, f) == RoundHalfEven(frame * 10000, f)

RECURSIVE SumAi(_)
SumAi(fs) == IF fs = <<>> THEN 0 ELSE fs[1].ai_probability + SumAi(Tail(fs))

RECURSIVE SumFft(_)
SumFft(fs) == IF fs = <<>> THEN 0 ELSE fs[1].fft_anomaly + SumFft(Tail(fs))

\* ------------------------------------------------------------------ state

VARIABLES
    media,                  \* "video" | "image": the pipeline analyze_video dispatched
    cv2,                    \* the pipelines' "import cv2, numpy" succeeded (FALSE: cv2 is None)
    detector,               \* face_detector.detector is not None
    Image,                  \* ai_detector's imports succeeded (Image, np, cv2 not None there)
    client,                 \* ai_detector.client is not None
    ai_pipe,                \* ai_detector.ai_pipe is not None
    db_connected,           \* db.db is not None
    pc,                     \* position of the background task
    cap,                    \* the cv2.VideoCapture: [opened, fps, frames]
    img,                    \* cv2.imread of the image: "unread" | "none" | "array"
    fps, skip_rate, current_frame,
    analyzed_frames, fake_accumulated_score, fft_accumulated_score, count,
    thumbnails,
    final_verdict, confidence,
    report,                 \* the report dict built at "3. Save Report"
    scans,                  \* the documents of db.db.scans, in insertion order
    processed_files,        \* files in the scan's processed folder
    thumb_files,            \* files in the scan's thumbnails folder
    processed_folder,       \* whether the scan's processed folder exists
    exc_frame,              \* frame index whose processing raised, or NoFrame
    save_result,            \* how the insert block ended
    outcome,                \* "running" | "returned" | "raised": how the task ended
    last_lookup,            \* what the client's most recent GET /api/results got
    seen_report,            \* the first report any lookup returned, or NoReport
    call,                   \* the arguments a helper function was called with
    ret,                    \* what that call returned, or NoRet
    scan_folders,           \* scan ids whose folder tree create_scan_folder made
    background_tasks,       \* the tasks analyze_video handed to BackgroundTasks
    responses,              \* the HTTP responses of POST /api/analyze, in order
    runs,                   \* scan id -> the local variables of its pipeline run
    disk                    \* path -> content of the files under storage/scans

vars == << media, cv2, detector, Image, client, ai_pipe, db_connected, pc, cap, img,
           fps, skip_rate, current_frame, analyzed_frames,
           fake_accumulated_score, fft_accumulated_score, count, thumbnails,
           final_verdict, confidence, report, scans, processed_files,
           thumb_files, processed_folder, exc_frame, save_result, outcome,
           last_lookup,
           seen_report, call, ret, scan_folders, background_tasks,
           responses, runs, disk >>

config == << media, cv2, detector, Image, client, ai_pipe, db_connected >>
locals == << fps, skip_rate, current_frame, analyzed_frames,
             fake_accumulated_score, fft_accumulated_score, count, thumbnails >>
files == << processed_files, thumb_files, processed_folder >>
observer == << last_lookup, seen_report >>
helper == << call, ret >>
server == << scan_folders, background_tasks, responses, runs, disk >>
aux == << helper, server >>

NoFrame == 0 - 1
NoCap == [opened |-> FALSE, fps |-> 0, frames |-> 0]
NoReport == [scan_id |-> "none"]
NoThumbnail == << "none", 0 >>
NoConfidence == [num |-> 0, den |-> 1]

\* ------------------------------------------------------------ environment

\* What the engines and the decoder can answer for one analysed image.
Engine(kind, label, score) == [kind |-> kind, label |-> label, score |-> score]
Fft(kind, v) == [kind |-> kind, v |-> v]

Scenes ==
    { [crop |-> "face", cloud |-> Engine("ok", "fake", 900),
       local |-> Engine("ok", "deepfake", 900), rnd |-> 900,
       fft |-> Fft("ok", 7000), rfft |-> 7000],
      [crop |-> "none", cloud |-> Engine("ok", "real", 900),
       local |-> Engine("ok", "real", 900), rnd |-> 100,
       fft |-> Fft("ok", 2000), rfft |-> 2000],
      [crop |-> "face", cloud |-> Engine("ok", "real", 500),
       local |-> Engine("ok", "fake", 500), rnd |-> 500,
       fft |-> Fft("ok", 5001), rfft |-> 5001],
      [crop |-> "none", cloud |-> Engine("ok", "fake", 1000),
       local |-> Engine("ok", "fake", 1000), rnd |-> 900,
       fft |-> Fft("ok", 10000), rfft |-> 8000],
      [crop |-> "face", cloud |-> Engine("ok", "real", 1000),
       local |-> Engine("ok", "real", 1000), rnd |-> 100,
       fft |-> Fft("unreadable", 0), rfft |-> 2000],
      [crop |-> "none", cloud |-> Engine("error", "", 0),
       local |-> Engine("error", "", 0), rnd |-> 500,
       fft |-> Fft("error", 0), rfft |-> 5001] }

\* random.uniform(0.1, 0.95) and random.uniform(10, 80) of the mock modes.
MockDraws ==
    { [ai |-> 100, fft |-> 2000], [ai |-> 500, fft |-> 5001],
      [ai |-> 900, fft |-> 7000], [ai |-> 600, fft |-> 1000],
      [ai |-> 950, fft |-> 8000] }

\* Where an OpenCV call of one frame's processing raises.
\*   "write": cv2.resize / cv2.imwrite of the analysis image
\*   "thumb": cv2.resize / cv2.imwrite of the thumbnail
ExcPoints == { "none", "write", "thumb" }

\* cap.get(cv2.CAP_PROP_FPS) in hundredths: unknown (0), 0.5, 1.5 and 2 fps.
FpsValues == { 0, 50, 150, 200 }

\* The streams cv2.VideoCapture can hand back: NoCap is one that is not opened.
Caps == { [opened |-> TRUE, fps |-> f, frames |-> n] :
            f \in FpsValues, n \in 0..MaxFrames } \cup { NoCap }

\* ------------------------------------------------------------- detectors

\* '"fake" in label or "deepfake" in label' on the lower-cased label.
IsFakeLabel(label) == label \in { "fake", "deepfake" }

\* The top score handed back whatever the label says.
NormaliseAsIs(r) == r.score

\* Probability of fake from an engine's top result.
Normalise(r) == IF IsFakeLabel(r.label) THEN r.score ELSE 1000 - r.score

\* get_ai_prediction with the branch that produced the value:
\*   "lite"     random.uniform(0.1, 0.9) of "if not client and not ai_pipe"
\*   "cloud"    STRATEGY 1, "local" STRATEGY 2
\*   "error"    the 0.5 of the outer except (the local pipeline raised)
\*   "random"   random.uniform(0.1, 0.9) of "Fallback if both fail"
AiPrediction(s) ==
    IF ~client /\ ~ai_pipe THEN [value |-> s.rnd, via |-> "lite"]
    ELSE IF client /\ s.cloud.kind = "ok"
    THEN [value |-> Normalise(s.cloud), via |-> "cloud"]
    ELSE IF ai_pipe /\ Image
         THEN IF s.local.kind = "ok"
              THEN [value |-> Normalise(s.local), via |-> "local"]
              ELSE [value |-> AiErrorScore, via |-> "error"]
    ELSE [value |-> s.rnd, via |-> "random"]

get_ai_prediction(s) == AiPrediction(s).value

get_fft_score(s) ==
    IF ~Image THEN s.rfft
    ELSE IF s.fft.kind = "ok" THEN s.fft.v
    ELSE 0

\* (cropped_face is not None, status_boolean)
crop_face_advanced(s) ==
    IF ~detector THEN [face |-> FALSE, found |-> TRUE]
    ELSE IF s.crop = "face" THEN [face |-> TRUE, found |-> TRUE]
    ELSE [face |-> FALSE, found |-> FALSE]

\* ------------------------------------------------------------ aggregation

\* "2. Final Verdict Logic" of the video pipeline.
FinalScore(ai_sum, fft_sum, n) ==
    [num |-> ai_sum * AiWeight + fft_sum * FftWeight, den |-> n]

\* The score left uncapped.
UncappedConfidence(c) == c

\* min(final_score, 99.9)
CapConfidence(c) ==
    IF c.num > ConfidenceCap * c.den THEN [num |-> ConfidenceCap, den |-> 1] ELSE c

\* "DEEPFAKE" if confidence > 50 else "REAL"
Verdict(c) == IF c.num > VerdictThreshold * c.den THEN "DEEPFAKE" ELSE "REAL"

FrameResult(ts, ai, fftv, thumb) ==
    [timestamp |-> ts, ai_probability |-> ai, fft_anomaly |-> fftv,
     thumbnail |-> thumb]

\* ------------------------------------------------------------------- init

\* No helper call is in progress.
NoCall == [fn |-> "none"]
NoRet == [fn |-> "none"]

\* What the module-level imports and the startup hook left behind.
ConfigInit ==
    /\ media \in { "video", "image" }
    /\ cv2 \in BOOLEAN
    /\ detector \in BOOLEAN
    /\ Image \in BOOLEAN
    /\ client \in BOOLEAN
    /\ ai_pipe \in BOOLEAN
    /\ db_connected \in BOOLEAN
    \* face_detector and ai_detector import cv2 themselves
    /\ detector => cv2
    /\ Image => cv2
    \* "if hf_token and InferenceClient", "if pipeline and not client"
    /\ client => Image
    /\ ai_pipe => (Image /\ ~client)

\* The background task before its first statement, with nothing stored yet.
RunInit ==
    /\ pc = "start"
    /\ cap = NoCap
    /\ img = "unread"
    /\ fps = 0
    /\ skip_rate = 0
    /\ current_frame = 0
    /\ analyzed_frames = << >>
    /\ fake_accumulated_score = 0
    /\ fft_accumulated_score = 0
    /\ count = 0
    /\ thumbnails = << >>
    /\ final_verdict = "unset"
    /\ confidence = NoConfidence
    /\ report = NoReport
    /\ scans = << >>
    /\ processed_files = {}
    /\ thumb_files = {}
    /\ processed_folder = TRUE
    /\ exc_frame = NoFrame
    /\ save_result = "pending"
    /\ outcome = "running"
    /\ last_lookup = [kind |-> "none", report |-> NoReport]
    /\ seen_report = NoReport

HelperIdle == call = NoCall /\ ret = NoRet

\* The upload endpoint has not been called.
ServerIdle ==
    /\ scan_folders = {}
    /\ background_tasks = << >>
    /\ responses = << >>
    /\ runs = << >>
    /\ disk = << >>

Init == ConfigInit /\ RunInit /\ HelperIdle /\ ServerIdle

\* -------------------------------------------------------------- reports

\* The report dict of "3. Save Report" (file_name and created_at, which no
\* reader of the model compares, are left out).
Report(verdict, conf, total, frames, has_thumbs, mtype) ==
    [scan_id |-> ScanId,
     verdict |-> verdict,
     confidence_score |-> Round2(conf),
     total_frames_analyzed |-> total,
     frame_data |-> frames,
     has_thumbnails |-> has_thumbs,
     media_type |-> mtype]

\* "total_frames_analyzed": 1 of the image report.
ImageTotalFrames == 1

\* db.db.scans.insert_one(report): the collection after the call.
InsertOne(rows, doc, ok) == IF ok THEN Append(rows, doc) ELSE rows

\* A lookup answered from the task's in-memory report dict instead of the
\* scans collection.
FindUnsaved(rows, id) == IF report # NoReport THEN report ELSE NoReport

\* db.db.scans.find_one({"scan_id": id}): the first matching document.
FindOne(rows, id) ==
    LET hits == { i \in 1..Len(rows) : rows[i].scan_id = id }
    IN  IF hits = {} THEN NoReport
        ELSE rows[CHOOSE i \in hits : \A j \in hits : i <= j]

\* ------------------------------------------------- process_video_pipeline

\* Setup, the mock/real branch and cv2.VideoCapture.
VideoStart ==
    /\ pc = "start"
    /\ media = "video"
    /\ IF ~cv2
       THEN /\ pc' = "mock"
            /\ UNCHANGED << cap, fps, skip_rate, outcome >>
       ELSE \E c \in Caps :
              /\ cap' = c
              /\ IF ~c.opened
                 THEN \* "Could not open video": return
                      /\ pc' = "done"
                      /\ outcome' = "returned"
                      /\ UNCHANGED << fps, skip_rate >>
                 ELSE /\ fps' = (IF c.fps = 0 THEN DefaultFps ELSE c.fps)
                      /\ skip_rate' = fps' \div 100
                      /\ pc' = "loop"
                      /\ UNCHANGED outcome
    /\ UNCHANGED << aux, config, img, current_frame, analyzed_frames,
                    fake_accumulated_score, fft_accumulated_score, count,
                    thumbnails, final_verdict, confidence, report, scans,
                    files, exc_frame, save_result, observer >>

\* One iteration of "for i in range(5)" of the mock mode.
VideoMockFrame ==
    /\ pc = "mock"
    /\ \E d \in MockDraws :
         /\ analyzed_frames' =
              Append(analyzed_frames, FrameResult(count * 100, d.ai, d.fft, NoThumbnail))
         /\ fake_accumulated_score' = fake_accumulated_score + d.ai
         /\ fft_accumulated_score' = fft_accumulated_score + d.fft
    /\ count' = count + 1
    /\ pc' = (IF count + 1 = MockFrames THEN "verdict" ELSE "mock")
    /\ UNCHANGED << aux, config, cap, img, fps, skip_rate, current_frame, thumbnails,
                    final_verdict, confidence, report, scans, files, exc_frame,
                    save_result, outcome, observer >>

\* The frame's analysis file: face_<n>.jpg or frame_<n>.jpg.
AnalysisFile(crop, n) ==
    IF crop.found /\ crop.face THEN << "face", n >> ELSE << "frame", n >>

\* The body of "if current_frame % skip_rate == 0" for scene s, raising at e.
VideoAnalyse(s, e) ==
    LET crop == crop_face_advanced(s)
        ai_conf == get_ai_prediction(s)
        fft_val == get_fft_score(s)
        thumbnail_filename == << "thumb", count >>
    IN  IF e = "write"
        THEN /\ exc_frame' = current_frame
             /\ pc' = "verdict"
             /\ UNCHANGED << locals, files >>
        ELSE IF e = "thumb"
        THEN /\ processed_files' =
                  processed_files \cup { AnalysisFile(crop, current_frame) }
             /\ exc_frame' = current_frame
             /\ pc' = "verdict"
             /\ UNCHANGED << locals, thumb_files, processed_folder >>
        ELSE /\ processed_files' =
                  processed_files \cup { AnalysisFile(crop, current_frame) }
             /\ thumb_files' = thumb_files \cup { thumbnail_filename }
             /\ thumbnails' = Append(thumbnails, thumbnail_filename)
             /\ analyzed_frames' =
                  Append(analyzed_frames,
                         FrameResult(Timestamp(current_frame, fps), ai_conf,
                                     fft_val, thumbnail_filename))
             /\ fake_accumulated_score' = fake_accumulated_score + ai_conf
             /\ fft_accumulated_score' = fft_accumulated_score + fft_val
             /\ count' = count + 1
             /\ current_frame' = current_frame + 1
             /\ UNCHANGED << fps, skip_rate, pc, exc_frame, processed_folder >>

\* One iteration of "while cap.isOpened()", inside the try of the real mode.
VideoFrame ==
    /\ pc = "loop"
    /\ IF current_frame >= cap.frames
       THEN \* "if not ret: break", cap.release()
            /\ pc' = "verdict"
            /\ UNCHANGED << locals, files, exc_frame >>
       ELSE IF skip_rate = 0
       THEN \* current_frame % 0 raises ZeroDivisionError
            /\ exc_frame' = current_frame
            /\ pc' = "verdict"
            /\ UNCHANGED << locals, files >>
       ELSE IF current_frame % skip_rate # 0
       THEN /\ current_frame' = current_frame + 1
            /\ UNCHANGED << fps, skip_rate, analyzed_frames,
                            fake_accumulated_score, fft_accumulated_score,
                            count, thumbnails, files, exc_frame, pc >>
       ELSE \E s \in Scenes, e \in ExcPoints : VideoAnalyse(s, e)
    /\ UNCHANGED << aux, config, cap, img, final_verdict, confidence, report, scans,
                    save_result, outcome, observer >>

\* "2. Final Verdict Logic" and "3. Save Report".
VideoVerdict ==
    /\ pc = "verdict"
    /\ LET c == IF count = 0 THEN NoConfidence
                ELSE CapConfidence(FinalScore(fake_accumulated_score,
                                              fft_accumulated_score, count))
           v == IF count = 0 THEN "UNCERTAIN" ELSE Verdict(c)
       IN  /\ confidence' = c
           /\ final_verdict' = v
           /\ report' = Report(v, c, count, analyzed_frames,
                               Len(thumbnails) > 0, "video")
    /\ pc' = "save"
    /\ UNCHANGED << aux, config, cap, img, locals, scans, files, exc_frame, save_result,
                    outcome, observer >>

\* "Save to MongoDB (Async)" of either pipeline; the image pipeline ends here.
Save ==
    /\ pc = "save"
    /\ IF db_connected
       THEN \E ok \in BOOLEAN :
              /\ scans' = InsertOne(scans, report, ok)
              /\ save_result' = (IF ok THEN "saved" ELSE "failed")
       ELSE /\ save_result' = "skipped"
            /\ UNCHANGED scans
    /\ pc' = (IF media = "video" THEN "cleanup" ELSE "done")
    /\ outcome' = (IF media = "video" THEN outcome ELSE "returned")
    /\ UNCHANGED << aux, config, cap, img, locals, final_verdict, confidence, report,
                    files, exc_frame, observer >>

\* storage_manager.cleanup_scan(scan_id, keep_video=True, keep_thumbnails=True)
cleanup_scan(ok) == IF ok THEN {} ELSE processed_files

\* "4. Cleanup Temporary Files" inside its try/except.
VideoCleanup ==
    /\ pc = "cleanup"
    /\ \E ok \in BOOLEAN :
         /\ processed_files' = cleanup_scan(ok)
         /\ processed_folder' = (processed_folder /\ ~ok)
    /\ pc' = "done"
    /\ outcome' = "returned"
    /\ UNCHANGED << aux, config, cap, img, locals, final_verdict, confidence, report,
                    scans, thumb_files, exc_frame, save_result, observer >>

\* ------------------------------------------------- process_image_pipeline

\* thumbnail_filename of the image pipeline: "face_detected.jpg" if found.
ImageThumbnailName(crop) ==
    IF crop.found THEN << "face_detected", 0 >> ELSE << "thumbnail", 0 >>

\* The files the real mode has written into the thumbnails folder.
ImageThumbFiles(crop) ==
    IF crop.found /\ crop.face THEN { << "face_detected", 0 >> }
    ELSE IF ~crop.found THEN { << "thumbnail", 0 >> }
    ELSE {}

\* The call of this run that raises at point e: the face crop's cv2.imwrite,
\* or the thumbnail's cv2.resize / cv2.imwrite of the no-face branch.
ImageRaises(crop, e) ==
    \/ (e = "write" /\ crop.found /\ crop.face)
    \/ (e = "thumb" /\ ~crop.found)

\* The mock mode: "if cv2 is None".
ImageMock(d) ==
    /\ final_verdict' = (IF d.ai > MockAiThreshold THEN "DEEPFAKE" ELSE "REAL")
    /\ confidence' = [num |-> d.ai * MockScale, den |-> 1]
    /\ analyzed_frames' = << FrameResult(0, d.ai, d.fft, NoThumbnail) >>
    /\ UNCHANGED thumb_files

\* The try block of the real mode after cv2.imread, for scene s, raising at e.
ImageAnalyse(s, e) ==
    LET crop == crop_face_advanced(s)
        ai_conf == get_ai_prediction(s)
        fft_val == get_fft_score(s)
        c == CapConfidence(FinalScore(ai_conf, fft_val, 1))
    IN  IF ImageRaises(crop, e)
        THEN \* except Exception: "Error in image processing"
             /\ final_verdict' = "UNCERTAIN"
             /\ confidence' = NoConfidence
             /\ UNCHANGED << analyzed_frames, thumb_files >>
        ELSE /\ thumb_files' = thumb_files \cup ImageThumbFiles(crop)
             /\ analyzed_frames' =
                  << FrameResult(0, ai_conf, fft_val, ImageThumbnailName(crop)) >>
             /\ confidence' = c
             /\ final_verdict' = Verdict(c)

\* process_image_pipeline up to and including "3. Save Report".
ImageProcess ==
    /\ pc = "start"
    /\ media = "image"
    /\ IF ~cv2
       THEN /\ \E d \in MockDraws : ImageMock(d)
            /\ pc' = "save"
            /\ UNCHANGED << img, outcome >>
       ELSE \E read \in { "none", "array" } :
              /\ img' = read
              /\ IF read = "none"
                 THEN \* "Could not read image": return
                      /\ pc' = "done"
                      /\ outcome' = "returned"
                      /\ UNCHANGED << analyzed_frames, final_verdict,
                                      confidence, thumb_files >>
                 ELSE /\ \E s \in Scenes, e \in ExcPoints : ImageAnalyse(s, e)
                      /\ pc' = "save"
                      /\ UNCHANGED outcome
    /\ report' = (IF pc' = "save"
                  THEN Report(final_verdict', confidence', ImageTotalFrames,
                              analyzed_frames', TRUE, "image")
                  ELSE report)
    /\ UNCHANGED << aux, config, cap, fps, skip_rate, current_frame,
                    fake_accumulated_score, fft_accumulated_score, count,
                    thumbnails, scans, processed_files, processed_folder,
                    exc_frame, save_result, observer >>

\* ------------------------------------------------------------ get_results

Lookup(kind, doc) == [kind |-> kind, report |-> doc]

\* get_results without its "if db.db is not None" guard: with the store not
\* connected, db.db.scans raises and the handler answers 500.
ResultsResponseUnguarded(rows, id, err) ==
    IF err \/ ~db_connected THEN Lookup("error500", NoReport)
    ELSE IF FindOne(rows, id) # NoReport
         THEN Lookup("report", FindOne(rows, id))
         ELSE Lookup("processing", NoReport)

\* The body of get_results for a store read that raises (err) or answers.
ResultsResponse(rows, id, err) ==
    IF db_connected
    THEN IF err THEN Lookup("error500", NoReport)
         ELSE IF FindOne(rows, id) # NoReport
              THEN Lookup("report", FindOne(rows, id))
              ELSE Lookup("processing", NoReport)
    ELSE Lookup("processing", NoReport)

\* One GET /api/results/{scan_id} of the polling client.
GetResults ==
    /\ \E err \in BOOLEAN :
         /\ last_lookup' = ResultsResponse(scans, ScanId, err)
         /\ seen_report' =
              (IF seen_report = NoReport /\ last_lookup'.kind = "report"
               THEN last_lookup'.report ELSE seen_report)
    /\ UNCHANGED << aux, config, pc, cap, img, locals, final_verdict, confidence, report,
                    scans, files, exc_frame, save_result, outcome >>

\* ------------------------------------------------------------------ spec

Next ==
    \/ VideoStart
    \/ VideoMockFrame
    \/ VideoFrame
    \/ VideoVerdict
    \/ ImageProcess
    \/ Save
    \/ VideoCleanup
    \/ GetResults

Spec == Init /\ [][Next]_vars

\* ---------------------------------------------------------------- claims

\* The persisted reports (documents of the scans collection).
Rows == { scans[i] : i \in 1..Len(scans) }

\* confidence_score > 50 and the 99.9 ceiling, in hundredths of a percent.
ScoreThreshold == VerdictThreshold \div 10
ScoreCap == ConfidenceCap \div 10

\* The task ended with the store connected and no insert error.
RunEndedStoreHealthy ==
    pc = "done" /\ db_connected /\ save_result # "failed"

\* The media could not be opened (video) or decoded (image).
MediaUnreadable ==
    \/ (media = "video" /\ cv2 /\ pc # "start" /\ ~cap.opened)
    \/ (media = "image" /\ img = "none")

\* C1: every persisted report, on every path, has total_frames_analyzed equal
\* to the number of entries of its frame_data.
C1_TotalEqualsFrameData ==
    \A r \in Rows : r.total_frames_analyzed = Len(r.frame_data)

\* C2: in every persisted report, total_frames_analyzed is 0 exactly when the
\* verdict is UNCERTAIN and confidence_score is 0.
C2_ZeroFramesIffUncertain ==
    \A r \in Rows :
        (r.total_frames_analyzed = 0)
            <=> (r.verdict = "UNCERTAIN" /\ r.confidence_score = 0)

\* C3: in every persisted report with total_frames_analyzed > 0 the verdict is
\* DEEPFAKE exactly when the stored (rounded) confidence_score exceeds 50, and
\* REAL otherwise.
C3_VerdictFollowsStoredScore ==
    \A r \in Rows :
        r.total_frames_analyzed > 0 =>
            /\ (r.verdict = "DEEPFAKE") <=> (r.confidence_score > ScoreThreshold)
            /\ (r.verdict # "DEEPFAKE") => (r.verdict = "REAL")

\* C4: a run with the store connected ends with exactly one report of its scan
\* id persisted and nothing raised; when the media could not be opened or
\* decoded that report has 0 frames, verdict UNCERTAIN and confidence 0.
C4_ExactlyOneReportPerRun ==
    RunEndedStoreHealthy =>
        /\ outcome = "returned"
        /\ Cardinality({ i \in 1..Len(scans) : scans[i].scan_id = ScanId }) = 1
        /\ MediaUnreadable =>
             \A r \in Rows :
                 /\ r.total_frames_analyzed = 0
                 /\ r.verdict = "UNCERTAIN"
                 /\ r.confidence_score = 0

C6_BestEffortReportPersisted ==
    RunEndedStoreHealthy =>
        /\ outcome = "returned"
        /\ FindOne(scans, ScanId) # NoReport

\* The sampled frame indices of the opened stream.
SampledFrames == { i \in 0..(cap.frames - 1) : i % skip_rate = 0 }

\* C7: in the video pipeline (real mode) a frame whose processing raises is
\* the only one skipped: every other sampled frame of the stream is in the
\* report, and the running sums are those of the reported frames.
C7_OnlyRaisingFrameSkipped ==
    (media = "video" /\ cv2 /\ cap.opened /\ skip_rate > 0 /\ report # NoReport) =>
        /\ report.total_frames_analyzed >=
              Cardinality(SampledFrames) - (IF exc_frame = NoFrame THEN 0 ELSE 1)
        /\ fake_accumulated_score = SumAi(report.frame_data)
        /\ fft_accumulated_score = SumFft(report.frame_data)

\* The insert block ended without a row: the insert raised or db.db is None.
SaveFailedOrSkipped == pc = "done" /\ save_result \in { "failed", "skipped" }

C9_ConfidenceInRange ==
    \A r \in Rows : 0 <= r.confidence_score /\ r.confidence_score <= ScoreCap

\* A persisted report whose weighted score exceeded 99.9 and was capped.
C9_Witness ==
    \E r \in Rows :
        /\ r.confidence_score = ScoreCap
        /\ Len(r.frame_data) > 0
        /\ SumAi(r.frame_data) * 70 + SumFft(r.frame_data) * 3
             > 99900 * Len(r.frame_data)

\* min(99.9, mean_ai*100*0.7 + mean_fft*0.01*100*0.3), rounded as stored.
ClaimedScore(frames) ==
    LET n == Len(frames)
        num == SumAi(frames) * 70 + SumFft(frames) * 3
    IN  IF num > 99900 * n THEN 9990 ELSE RoundHalfEven(num, 10 * n)

\* C10: every persisted report with analysed frames stores the confidence
\* min(99.9, mean_ai*100*0.7 + mean_fft*0.01*100*0.3) over its frame_data.
C10_ConfidenceIsWeightedMean ==
    \A r \in Rows :
        Len(r.frame_data) > 0 => r.confidence_score = ClaimedScore(r.frame_data)


\* ==================================================== crop_face_advanced
\* The face locator on pixel geometry.  A frame is [width, height]; a
\* MediaPipe relative_bounding_box is in tenths of the frame, a Haar
\* rectangle in pixels.

Max(a, b) == IF a >= b THEN a ELSE b
Min(a, b) == IF a <= b THEN a ELSE b

\* int(n / d) for d > 0: truncation toward zero.
TruncDiv(n, d) == IF n >= 0 THEN n \div d ELSE 0 - ((0 - n) \div d)

\* numpy basic slicing: where index i of a slice lands on an axis of length n
\* (a negative index counts from the end).
SliceIndex(i, n) == IF i < 0 THEN Max(i + n, 0) ELSE Min(i, n)

\* Number of elements frame[lo:hi] selects on an axis of length n.
SliceLen(lo, hi, n) == Max(SliceIndex(hi, n) - SliceIndex(lo, n), 0)

\* "Convert relative coordinates to pixels"
PixelBox(b, width, height) ==
    [x |-> TruncDiv(b.xmin * width, 10), y |-> TruncDiv(b.ymin * height, 10),
     w |-> TruncDiv(b.width * width, 10), h |-> TruncDiv(b.height * height, 10)]

\* "Add Padding (20%)" and the max/min clamp: the slice bounds x1, y1, x2, y2.
PaddedRegion(b, width, height) ==
    LET x_pad == TruncDiv(b.w * 2, 10)
        y_pad == TruncDiv(b.h * 2, 10)
    IN  [x1 |-> Max(0, b.x - x_pad), y1 |-> Max(0, b.y - y_pad),
         x2 |-> Min(width, b.x + b.w + x_pad),
         y2 |-> Min(height, b.y + b.h + y_pad)]

\* cropped_face.size of frame[y1:y2, x1:x2] (per channel).
CropSize(r, width, height) ==
    SliceLen(r.y1, r.y2, height) * SliceLen(r.x1, r.x2, width)

NoRegion == [x1 |-> 0, y1 |-> 0, x2 |-> 0, y2 |-> 0]

CropResult(crop, found, via, region) ==
    [fn |-> "crop_face_advanced", crop |-> crop, found |-> found,
     via |-> via, region |-> region]

\* crop_face_advanced(frame): f carries the frame's shape, what
\* detector.process and detectMultiScale answer for it, and whether an
\* OpenCV / MediaPipe call raises.
FaceLocator(f) ==
    IF ~detector THEN CropResult(FALSE, TRUE, "lite", NoRegion)
    ELSE IF f.raises THEN CropResult(FALSE, FALSE, "error", NoRegion)
    ELSE LET mp == IF f.detections = << >> THEN NoRegion
                   ELSE PaddedRegion(PixelBox(f.detections[1], f.width, f.height),
                                     f.width, f.height)
             haar == IF f.faces = << >> THEN NoRegion
                     ELSE PaddedRegion(f.faces[1], f.width, f.height)
         IN  IF f.detections # << >> /\ CropSize(mp, f.width, f.height) > 0
             THEN CropResult(TRUE, TRUE, "mediapipe", mp)
             ELSE IF f.faces # << >> /\ CropSize(haar, f.width, f.height) > 0
             THEN CropResult(TRUE, TRUE, "haar", haar)
             ELSE CropResult(FALSE, FALSE, "none", NoRegion)


\* Frame shapes (width, height) the locator is called with.
FrameShapes == { << 100, 100 >>, << 200, 100 >> }

RelBox(xmin, ymin, width, height) ==
    [xmin |-> xmin, ymin |-> ymin, width |-> width, height |-> height]
Rect(x, y, w, h) == [x |-> x, y |-> y, w |-> w, h |-> h]

\* relative_bounding_box values, in tenths: inside the frame, overlapping
\* the top-left corner, wholly left of the frame, the whole frame, of zero
\* size, and wholly right of the frame.
RelBoxes ==
    { RelBox(2, 2, 5, 5), RelBox(0 - 1, 0 - 1, 4, 4), RelBox(0 - 8, 2, 2, 5),
      RelBox(0, 0, 10, 10), RelBox(5, 5, 0, 0), RelBox(12, 2, 2, 2) }

\* detectMultiScale rectangles: inside the image, at least minSize (20, 20).
HaarRects == { Rect(10, 10, 30, 30), Rect(0, 0, 80, 80), Rect(50, 50, 20, 20) }

\* Largest number of candidates one strategy returns for a frame.
MaxCandidates == 2

SeqsUpTo(S, n) == UNION { [1..k -> S] : k \in 0..n }

FaceCalls ==
    { [fn |-> "crop_face_advanced", width |-> sh[1], height |-> sh[2],
       detections |-> d, faces |-> h, raises |-> r] :
        sh \in FrameShapes, d \in SeqsUpTo(RelBoxes, MaxCandidates),
        h \in SeqsUpTo(HaarRects, MaxCandidates), r \in BOOLEAN }

\* Every variable of the pipeline run and of the lookup.
pipeline == << config, pc, cap, img, locals, final_verdict, confidence, report,
               scans, files, exc_frame, save_result, outcome, observer >>

\* The locator is a module of its own: only its own imports matter.
InitFace ==
    /\ ConfigInit
    /\ media = "video" /\ ~Image /\ ~db_connected
    /\ RunInit
    /\ ServerIdle
    /\ call \in FaceCalls
    /\ ret = NoRet

CropFace ==
    /\ call.fn = "crop_face_advanced"
    /\ ret = NoRet
    /\ ret' = FaceLocator(call)
    /\ UNCHANGED << pipeline, server, call >>

NextFace == CropFace

SpecFace == InitFace /\ [][NextFace]_vars

Cropped == ret.fn = "crop_face_advanced" /\ ret.crop

\* C11: whenever crop_face_advanced returns a crop with found=True, the
\* cropped region satisfies 0 <= x1 < x2 <= width and 0 <= y1 < y2 <= height,
\* for any detected box and any frame size.
C11_CropInsideFrame ==
    (Cropped /\ ret.found) =>
        /\ 0 <= ret.region.x1 /\ ret.region.x1 < ret.region.x2
        /\ ret.region.x2 <= call.width
        /\ 0 <= ret.region.y1 /\ ret.region.y1 < ret.region.y2
        /\ ret.region.y2 <= call.height


\* ================================================ analyze_video and its runs
\* POST /api/analyze for several uploads, and the background runs it
\* dispatches, interleaved.  Files are paths << scan_id, folder, name >>.

\* Largest number of POST /api/analyze requests.
MaxUploads == 2

\* settings.ALLOWED_EXTENSIONS
ALLOWED_EXTENSIONS ==
    { ".mp4", ".avi", ".mov", ".mkv", ".jpg", ".jpeg", ".png", ".webp", ".bmp" }

\* image_extensions of analyze_video
image_extensions == { ".jpg", ".jpeg", ".png", ".webp", ".bmp" }

\* file.filename of the uploads.
Filenames ==
    { "clip.mp4", "CLIP.MP4", "photo.jpg", "Photo.PNG", "notes.txt", "archive" }

\* os.path.splitext(file.filename)[1]
splitext(name) ==
    CASE name = "clip.mp4" -> ".mp4"
      [] name = "CLIP.MP4" -> ".MP4"
      [] name = "photo.jpg" -> ".jpg"
      [] name = "Photo.PNG" -> ".PNG"
      [] name = "notes.txt" -> ".txt"
      [] OTHER -> ""

\* The extension used as it was typed.
lower_skipped(e) == e

\* str.lower() on the extensions above.
lower(e) ==
    CASE e = ".MP4" -> ".mp4"
      [] e = ".PNG" -> ".png"
      [] OTHER -> e

\* uuid.uuid4().hex: the values it can return.  It is taken never to repeat
\* one (122 random bits).
Uuids == { "a1", "b2" }

\* Scan ids issued so far.
Issued == { responses[i].scan_id : i \in 1..Len(responses) } \ { "none" }

\* One folder tree for every scan.
get_scan_paths_shared(scan_id) ==
    [scan_folder |-> << "scans", "" >>,
     thumbnails_folder |-> << "scans", "thumbnails" >>,
     processed_folder |-> << "scans", "processed" >>]

\* StorageManager.get_scan_paths(scan_id)
get_scan_paths(scan_id) ==
    [scan_folder |-> << scan_id, "" >>,
     thumbnails_folder |-> << scan_id, "thumbnails" >>,
     processed_folder |-> << scan_id, "processed" >>]

\* folder / name
FilePath(folder, name) == << folder[1], folder[2], name >>

\* StorageManager.save_video(scan_id, source_path, extension): the final path.
save_video(scan_id, extension) ==
    FilePath(get_scan_paths(scan_id).scan_folder, "video" \o extension)

\* Writing data to a path of the disk.
WriteFile(d, path, data) ==
    [q \in DOMAIN d \cup { path } |-> IF q = path THEN data ELSE d[q]]

\* The frames a media file decodes to when opened.
ServerScenes ==
    { s \in Scenes : s.fft.kind = "ok" /\ s.fft.v \in { 2000, 7000 } }

MediaContents == UNION { [1..k -> ServerScenes] : k \in 0..2 }

\* The response to an upload, kept with the request it answers.
Response(status, scan_id, filename, content) ==
    [status |-> status, scan_id |-> scan_id, filename |-> filename,
     content |-> content]

Task(fn, scan_id, path) == [fn |-> fn, scan_id |-> scan_id, path |-> path]

\* POST /api/analyze with one uploaded file.
analyze_video(filename, content) ==
    LET ext == lower(splitext(filename))
    IN  IF ext \notin ALLOWED_EXTENSIONS
        THEN \* HTTPException(status_code=400): the body is never read
             /\ responses' = Append(responses, Response(400, "none", filename, << >>))
             /\ UNCHANGED << scan_folders, background_tasks, disk >>
        ELSE \E scan_id \in Uuids \ Issued :
               LET final_path == save_video(scan_id, ext)
                   fn == IF ext \in image_extensions
                         THEN "process_image_pipeline"
                         ELSE "process_video_pipeline"
               IN  /\ scan_folders' = scan_folders \cup { scan_id }
                   /\ disk' = WriteFile(disk, final_path, content)
                   /\ background_tasks' =
                        Append(background_tasks, Task(fn, scan_id, final_path))
                   /\ responses' = Append(responses, Response(200, scan_id, filename,
                                                   content))

Upload ==
    /\ Len(responses) < MaxUploads
    /\ \E filename \in Filenames, content \in MediaContents :
         analyze_video(filename, content)
    /\ UNCHANGED << pipeline, helper, runs >>


\* cap.get(cv2.CAP_PROP_FPS) of the uploaded videos: 1.5 fps, skip_rate 1.
ServerFps == 150

\* The local variables of a pipeline run at its first statement.
RunLocals(task) ==
    [fn |-> task.fn, path |-> task.path, pc |-> "start", frames |-> << >>,
     current_frame |-> 0, analyzed_frames |-> << >>,
     fake_accumulated_score |-> 0, fft_accumulated_score |-> 0, count |-> 0,
     thumbnails |-> << >>, final_verdict |-> "unset",
     confidence |-> NoConfidence, report |-> NoReport]

\* The report dict of a run with the given scan id.
ReportFor(scan_id, verdict, conf, total, frames, has_thumbs, mtype) ==
    [Report(verdict, conf, total, frames, has_thumbs, mtype)
        EXCEPT !.scan_id = scan_id]

\* storage_manager.cleanup_scan(scan_id): the processed folder is removed.
CleanupScan(d, scan_id) ==
    LET gone == { q \in DOMAIN d :
                    << q[1], q[2] >> = get_scan_paths(scan_id).processed_folder }
    IN  [q \in DOMAIN d \ gone |-> d[q]]

\* One sampled frame of process_video_pipeline's loop.
VideoRunFrame(r, d, scan_id) ==
    LET paths == get_scan_paths(scan_id)
        s == r.frames[r.current_frame + 1]
        crop == crop_face_advanced(s)
        ai_conf == get_ai_prediction(s)
        fft_val == get_fft_score(s)
        thumbnail_filename == << "thumb", r.count >>
        d1 == WriteFile(d, FilePath(paths.processed_folder,
                                    AnalysisFile(crop, r.current_frame)), s)
        d2 == WriteFile(d1, FilePath(paths.thumbnails_folder,
                                     thumbnail_filename), s)
    IN  [run |-> [r EXCEPT
                    !.thumbnails = Append(@, thumbnail_filename),
                    !.analyzed_frames =
                        Append(@, FrameResult(Timestamp(r.current_frame, ServerFps),
                                              ai_conf, fft_val, thumbnail_filename)),
                    !.fake_accumulated_score = @ + ai_conf,
                    !.fft_accumulated_score = @ + fft_val,
                    !.count = @ + 1,
                    !.current_frame = @ + 1],
         disk |-> d2]

\* "2. Final Verdict Logic" and "3. Save Report" of the video pipeline.
VideoRunVerdict(r, scan_id) ==
    LET c == IF r.count = 0 THEN NoConfidence
             ELSE CapConfidence(FinalScore(r.fake_accumulated_score,
                                           r.fft_accumulated_score, r.count))
        v == IF r.count = 0 THEN "UNCERTAIN" ELSE Verdict(c)
    IN  [r EXCEPT !.confidence = c, !.final_verdict = v,
                  !.report = ReportFor(scan_id, v, c, r.count, r.analyzed_frames,
                                       Len(r.thumbnails) > 0, "video"),
                  !.pc = "save"]

\* The real mode of process_image_pipeline after cv2.imread, up to the report.
ImageRunAnalyse(r, d, scan_id) ==
    LET paths == get_scan_paths(scan_id)
        s == r.frames[1]
        crop == crop_face_advanced(s)
        ai_conf == get_ai_prediction(s)
        fft_val == get_fft_score(s)
        c == CapConfidence(FinalScore(ai_conf, fft_val, 1))
        frames == << FrameResult(0, ai_conf, fft_val, ImageThumbnailName(crop)) >>
        written == ImageThumbFiles(crop)
    IN  [run |-> [r EXCEPT !.analyzed_frames = frames, !.confidence = c,
                           !.final_verdict = Verdict(c),
                           !.report = ReportFor(scan_id, Verdict(c), c,
                                                ImageTotalFrames, frames, TRUE,
                                                "image"),
                           !.pc = "save"],
         disk |-> IF written = {} THEN d
                  ELSE WriteFile(d, FilePath(paths.thumbnails_folder,
                                             CHOOSE f \in written : TRUE), s)]


\* The statements of the background task of scan_id at r.pc, on disk d: the
\* run's locals and the disk afterwards.  (The insert of "save" is RunSave.)
RunStep(r, d, scan_id) ==
    IF r.pc = "start"
    THEN \* cv2.VideoCapture(video_path) / cv2.imread(image_path)
         [run |-> IF r.fn = "process_image_pipeline" /\ d[r.path] = << >>
                  THEN [r EXCEPT !.pc = "done"]
                  ELSE [r EXCEPT !.frames = d[r.path], !.pc = "loop"],
          disk |-> d]
    ELSE IF r.pc = "loop"
    THEN IF r.fn = "process_image_pipeline"
         THEN ImageRunAnalyse(r, d, scan_id)
         ELSE IF r.current_frame >= Len(r.frames)
         THEN [run |-> VideoRunVerdict(r, scan_id), disk |-> d]
         ELSE VideoRunFrame(r, d, scan_id)
    ELSE IF r.pc = "save"
    THEN [run |-> [r EXCEPT !.pc = IF r.fn = "process_video_pipeline"
                                   THEN "cleanup" ELSE "done"],
          disk |-> d]
    ELSE [run |-> [r EXCEPT !.pc = "done"], disk |-> CleanupScan(d, scan_id)]

\* Starlette starts a dispatched task once its response has been sent.
RunStart(scan_id) ==
    /\ scan_id \notin DOMAIN runs
    /\ \E i \in 1..Len(background_tasks) :
         /\ background_tasks[i].scan_id = scan_id
         /\ runs' = runs @@ (scan_id :> RunLocals(background_tasks[i]))
    /\ UNCHANGED << pipeline, helper, scan_folders, background_tasks,
                    responses, disk >>

\* Any step of a run but the insert.
RunPipeline(scan_id) ==
    /\ scan_id \in DOMAIN runs
    /\ runs[scan_id].pc \notin { "save", "done" }
    /\ LET n == RunStep(runs[scan_id], disk, scan_id)
       IN  /\ runs' = [runs EXCEPT ![scan_id] = n.run]
           /\ disk' = n.disk
    /\ UNCHANGED << pipeline, helper, scan_folders, background_tasks, responses >>

\* await db.db.scans.insert_one(report)
RunSave(scan_id) ==
    /\ scan_id \in DOMAIN runs
    /\ runs[scan_id].pc = "save"
    /\ \E ok \in BOOLEAN : scans' = InsertOne(scans, runs[scan_id].report, ok)
    /\ runs' = [runs EXCEPT ![scan_id] = RunStep(@, disk, scan_id).run]
    /\ UNCHANGED << config, pc, cap, img, locals, final_verdict, confidence,
                    report, files, exc_frame, save_result, outcome, observer,
                    helper, scan_folders, background_tasks, responses, disk >>

StartTask == \E scan_id \in Uuids : RunStart(scan_id)
StepTask == \E scan_id \in Uuids : RunPipeline(scan_id)
SaveTask == \E scan_id \in Uuids : RunSave(scan_id)

\* Every engine is loaded and the store is connected.
InitServer ==
    /\ ConfigInit
    /\ media = "video" /\ detector /\ ai_pipe /\ db_connected
    /\ RunInit
    /\ HelperIdle
    /\ ServerIdle

NextServer == Upload \/ StartTask \/ StepTask \/ SaveTask

SpecServer == InitServer /\ [][NextServer]_vars


\* The uploads whose lower-cased extension is accepted, and those among them
\* that are images.
AcceptedNames == { "clip.mp4", "CLIP.MP4", "photo.jpg", "Photo.PNG" }
ImageNames == { "photo.jpg", "Photo.PNG" }

TaskIds(tasks) == { tasks[i].scan_id : i \in 1..Len(tasks) }

\* C12: a submission whose lower-cased extension is not accepted is rejected
\* and changes nothing (no scan id, no folder, no dispatch); an accepted one
\* gets a fresh scan id and dispatches exactly one background run for that id
\* (image pipeline for image extensions, video pipeline otherwise), and the
\* scan id is returned before that run has completed.
C12_SubmissionContract ==
    [][ /\ (background_tasks' # background_tasks \/ scan_folders' # scan_folders)
            => responses' # responses
        /\ DOMAIN runs' \subseteq TaskIds(background_tasks) \cap Issued
        /\ responses' # responses =>
             LET r == responses'[Len(responses')]
             IN  /\ responses' = Append(responses, r)
                 /\ IF r.filename \notin AcceptedNames
                    THEN /\ r.status = 400
                         /\ r.scan_id = "none"
                         /\ UNCHANGED << scan_folders, background_tasks, disk,
                                         runs, scans >>
                    ELSE /\ r.status = 200
                         /\ r.scan_id \notin Issued \cup scan_folders
                                         \cup TaskIds(background_tasks)
                         /\ scan_folders' = scan_folders \cup { r.scan_id }
                         /\ Len(background_tasks') = Len(background_tasks) + 1
                         /\ background_tasks' =
                              Append(background_tasks,
                                     background_tasks'[Len(background_tasks')])
                         /\ background_tasks'[Len(background_tasks')].scan_id
                              = r.scan_id
                         /\ background_tasks'[Len(background_tasks')].fn
                              = (IF r.filename \in ImageNames
                                 THEN "process_image_pipeline"
                                 ELSE "process_video_pipeline")
                         /\ r.scan_id \notin DOMAIN runs'
      ]_vars

\* An upper-case upload was accepted and its run has ended, and another
\* upload was rejected.
C12_Witness ==
    /\ \E i \in 1..Len(responses) : responses[i].status = 400
    /\ \E i \in 1..Len(responses) :
         /\ responses[i].status = 200
         /\ responses[i].filename \in { "CLIP.MP4", "Photo.PNG" }
         /\ responses[i].scan_id \in DOMAIN runs
         /\ runs[responses[i].scan_id].pc = "done"


\* The files under storage/scans/<scan_id>.
ScanFiles(d, scan_id) == [q \in { p \in DOMAIN d : p[1] = scan_id } |-> d[q]]

\* What the run of one upload produces when nothing else runs: the frames
\* of the stream analysed in order, one thumbnail each, the processed folder
\* emptied at the end.
AloneFrames(content) ==
    [i \in 1..Len(content) |->
        FrameResult(Timestamp(i - 1, ServerFps), get_ai_prediction(content[i]),
                    get_fft_score(content[i]), << "thumb", i - 1 >>)]

AloneVideo(scan_id, path, content) ==
    LET frames == AloneFrames(content)
        n == Len(content)
        c == IF n = 0 THEN NoConfidence
             ELSE CapConfidence(FinalScore(SumAi(frames), SumFft(frames), n))
        v == IF n = 0 THEN "UNCERTAIN" ELSE Verdict(c)
        thumbs == { << scan_id, "thumbnails", << "thumb", i - 1 >> >> : i \in 1..n }
    IN  [report |-> ReportFor(scan_id, v, c, n, frames, n > 0, "video"),
         analyzed_frames |-> frames,
         fake_accumulated_score |-> SumAi(frames),
         fft_accumulated_score |-> SumFft(frames),
         thumbnails |-> [i \in 1..n |-> << "thumb", i - 1 >>],
         files |-> [q \in { path } \cup thumbs |->
                      IF q = path THEN content ELSE content[q[3][2] + 1]]]

AloneImage(scan_id, path, content) ==
    IF content = << >>
    THEN [report |-> NoReport, analyzed_frames |-> << >>,
          fake_accumulated_score |-> 0, fft_accumulated_score |-> 0,
          thumbnails |-> << >>, files |-> [q \in { path } |-> content]]
    ELSE LET s == content[1]
             crop == crop_face_advanced(s)
             frames == << FrameResult(0, get_ai_prediction(s), get_fft_score(s),
                                      ImageThumbnailName(crop)) >>
             c == CapConfidence(FinalScore(get_ai_prediction(s),
                                           get_fft_score(s), 1))
             thumbs == { << scan_id, "thumbnails", f >> : f \in ImageThumbFiles(crop) }
         IN  [report |-> ReportFor(scan_id, Verdict(c), c, ImageTotalFrames,
                                   frames, TRUE, "image"),
              analyzed_frames |-> frames,
              fake_accumulated_score |-> 0, fft_accumulated_score |-> 0,
              thumbnails |-> << >>,
              files |-> [q \in { path } \cup thumbs |->
                           IF q = path THEN content ELSE s]]

AloneOutcome(scan_id) ==
    LET i == CHOOSE i \in 1..Len(responses) : responses[i].scan_id = scan_id
        ext == lower(splitext(responses[i].filename))
        path == << scan_id, "", "video" \o ext >>
    IN  IF ext \in image_extensions
        THEN AloneImage(scan_id, path, responses[i].content)
        ELSE AloneVideo(scan_id, path, responses[i].content)

\* The ended run of scan_id left what it leaves alone: accumulators and
\* report, files, and at most one row, equal to its report.
RunIsolated(scan_id) ==
    LET alone == AloneOutcome(scan_id)
        rows == { i \in 1..Len(scans) : scans[i].scan_id = scan_id }
        r == runs[scan_id]
    IN  r.pc = "done" =>
          /\ r.report = alone.report
          /\ r.analyzed_frames = alone.analyzed_frames
          /\ r.fake_accumulated_score = alone.fake_accumulated_score
          /\ r.fft_accumulated_score = alone.fft_accumulated_score
          /\ r.thumbnails = alone.thumbnails
          /\ ScanFiles(disk, scan_id) = alone.files
          /\ Cardinality(rows) <= 1
          /\ \A j \in rows : scans[j] = alone.report

\* The scan ids whose request or run took the step, and the paths it changed.
Movers ==
    { id \in DOMAIN runs' : id \notin DOMAIN runs \/ runs[id] # runs'[id] }
        \cup (Issued' \ Issued)
ChangedPaths ==
    { q \in DOMAIN disk \cup DOMAIN disk' :
        \/ q \notin DOMAIN disk
        \/ q \notin DOMAIN disk'
        \/ disk[q] # disk'[q] }

FloatBits == 5

RECURSIVE Pow2(_)
Pow2(k) == IF k = 0 THEN 1 ELSE 2 * Pow2(k - 1)

\* Number of binary digits of x > 0.
RECURSIVE Bits(_)
Bits(x) == IF x = 0 THEN 0 ELSE 1 + Bits(x \div 2)

\* The one representation of m * 2^e: m odd, or zero.
RECURSIVE Canon(_, _)
Canon(m, e) ==
    IF m = 0 THEN [m |-> 0, e |-> 0]
    ELSE IF m % 2 = 0 THEN Canon(m \div 2, e + 1)
    ELSE [m |-> m, e |-> e]

\* The float nearest to (n / d) * 2^e, for n / d with at least FloatBits bits.
FRound(n, d, e) ==
    LET sh == Max(Bits(n \div d) - FloatBits, 0)
    IN  Canon(RoundHalfEven(n, d * Pow2(sh)), e + sh)

\* Extra binary digits carried so that a quotient has FloatBits bits before
\* it is rounded.
Guard == FloatBits + 8

\* The float literal n / d (0.7 is FromRatio(7, 10)).
FromRatio(n, d) == FRound(n * Pow2(Guard), d, 0 - Guard)

\* a + b
FAdd(a, b) ==
    LET e == Min(a.e, b.e)
    IN  FRound(a.m * Pow2(a.e - e) + b.m * Pow2(b.e - e), 1, e)

\* a * b
FMul(a, b) == FRound(a.m * b.m, 1, a.e + b.e)

\* a / n for the integer n > 0
FDiv(a, n) == FRound(a.m * Pow2(Guard), n, a.e - Guard)

\* a > b
FGreater(a, b) ==
    LET e == Min(a.e, b.e)
    IN  a.m * Pow2(a.e - e) > b.m * Pow2(b.e - e)

FZero == [m |-> 0, e |-> 0]

\* "fake_accumulated_score += ai_conf" over the first k frames, in order.
RECURSIVE Accumulate(_, _, _)
Accumulate(frames, field, k) ==
    IF k = 0 THEN FZero
    ELSE FAdd(Accumulate(frames, field, k - 1), frames[k][field])

\* "2. Final Verdict Logic" on the sums of the given frames.
Aggregate(frames) ==
    LET n == Len(frames)
        avg_ai == FDiv(Accumulate(frames, "ai", n), n)
        avg_fft == FDiv(Accumulate(frames, "fft", n), n)
        final_score ==
            FAdd(FMul(FMul(avg_ai, FromRatio(100, 1)), FromRatio(7, 10)),
                 FMul(FMul(FMul(avg_fft, FromRatio(1, 100)), FromRatio(100, 1)),
                      FromRatio(3, 10)))
        conf == IF FGreater(final_score, FromRatio(999, 10))
                THEN FromRatio(999, 10) ELSE final_score
    IN  [count |-> n, avg_ai |-> avg_ai, avg_fft |-> avg_fft,
         confidence |-> conf,
         verdict |-> IF FGreater(conf, FromRatio(50, 1)) THEN "DEEPFAKE" ELSE "REAL"]


\* Per-frame results as floats: ai_probability and fft_anomaly_score.
AiFloats == { FromRatio(k, 10) : k \in { 1, 3, 5, 9 } }
FftFloats == { FromRatio(20, 1), FromRatio(70, 1) }
FloatFrames == { [ai |-> a, fft |-> f] : a \in AiFloats, f \in FftFloats }

\* The orders in which n frames can be added.
Orders(n) == { f \in [1..n -> 1..n] : \A i, j \in 1..n : i # j => f[i] # f[j] }

\* n frame results and an order to add them in.
AggregateCalls(n) ==
    { [fn |-> "aggregate", frames |-> fr, order |-> o] :
        fr \in [1..n -> FloatFrames], o \in Orders(n) }

InitAggregate ==
    /\ ConfigInit
    /\ media = "video" /\ cv2 /\ detector /\ ai_pipe /\ db_connected
    /\ RunInit
    /\ ServerIdle
    /\ \E n \in 2..MaxFrames : call \in AggregateCalls(n)
    /\ ret = NoRet

\* The loop's sums and the verdict logic, for the frames as given and for
\* the same frames in the order call.order.
AggregateBoth ==
    /\ call.fn = "aggregate"
    /\ ret = NoRet
    /\ ret' = [fn |-> "aggregate",
               given |-> Aggregate(call.frames),
               permuted |-> Aggregate([i \in 1..Len(call.frames) |->
                                          call.frames[call.order[i]]])]
    /\ UNCHANGED << pipeline, server, call >>

NextAggregate == AggregateBoth

SpecAggregate == InitAggregate /\ [][NextAggregate]_vars

\* C14: for a fixed multiset of per-frame results, any order of adding them
\* to the running sums yields the same count, the same mean scores, the
\* same confidence and the same verdict.
C14_OrderIndependent ==
    ret.fn = "aggregate" =>
        /\ ret.given.count = ret.permuted.count
        /\ ret.given.avg_ai = ret.permuted.avg_ai
        /\ ret.given.avg_fft = ret.permuted.avg_fft
        /\ ret.given.confidence = ret.permuted.confidence
        /\ ret.given.verdict = ret.permuted.verdict


\* ------------------------------------------------ claims on the face locator

\* Index of the box of largest area, the first among equals.
LargestBox(boxes) ==
    CHOOSE i \in 1..Len(boxes) :
        \A j \in 1..Len(boxes) :
            \/ boxes[j].w * boxes[j].h < boxes[i].w * boxes[i].h
            \/ (boxes[j].w * boxes[j].h = boxes[i].w * boxes[i].h /\ i <= j)

\* The candidates of the strategy whose box was cropped, in pixels.
CandidateBoxes ==
    IF ret.via = "mediapipe"
    THEN [i \in 1..Len(call.detections) |->
             PixelBox(call.detections[i], call.width, call.height)]
    ELSE call.faces

\* C15: when a detection strategy returns several candidate boxes for a
\* frame, crop_face_advanced crops the box with the largest area (the first
\* among boxes of equal area), not merely the first box returned.
C15_CropsLargestBox ==
    (Cropped /\ ret.via \in { "mediapipe", "haar" }) =>
        ret.region = PaddedRegion(CandidateBoxes[LargestBox(CandidateBoxes)],
                                  call.width, call.height)


\* ====================================================== get_ai_prediction

\* What client.image_classification / ai_pipe can answer: an error, or a top
\* result with its lower-cased label and its score in thousandths.
EngineAnswers ==
    { Engine("error", "", 0) } \cup
    { Engine("ok", l, sc) : l \in { "fake", "deepfake", "real", "realism" },
                            sc \in { 0, 300, 1000 } }

AiCalls ==
    { [fn |-> "get_ai_prediction", cloud |-> c, local |-> l, rnd |-> r] :
        c \in EngineAnswers, l \in EngineAnswers, r \in { 100, 500, 900 } }

\* Any engine set-up the module-level code of ai_detector can leave behind.
InitAi ==
    /\ ConfigInit
    /\ media = "video" /\ ~detector /\ ~db_connected
    /\ RunInit
    /\ ServerIdle
    /\ call \in AiCalls
    /\ ret = NoRet

PredictAi ==
    /\ call.fn = "get_ai_prediction"
    /\ ret = NoRet
    /\ ret' = [fn |-> "get_ai_prediction"] @@ AiPrediction(call)
    /\ UNCHANGED << pipeline, server, call >>

NextAi == PredictAi

SpecAi == InitAi /\ [][NextAi]_vars

\* C16: the cloud classifier is tried first; if it raises any error the
\* frame's result comes from the locally loaded model; the random
\* placeholder is returned only when neither engine is available.
C16_FallbackOrder ==
    ret.fn = "get_ai_prediction" =>
        /\ (client /\ call.cloud.kind = "ok") => ret.via = "cloud"
        /\ (client /\ call.cloud.kind = "error") =>
               (ret.via = "local" /\ ret.value = Normalise(call.local))
        /\ ret.via \in { "lite", "random" } => (~client /\ ~ai_pipe)

\* What a lower-cased label denotes to a reader of the engine's output.
DenotesFake(label) == label \in { "fake", "deepfake" }
DenotesReal(label) == label \in { "real", "realism" }

\* The engine result the returned value was computed from.
EngineUsed == IF ret.via = "cloud" THEN call.cloud ELSE call.local

\* C21: for an engine result (label, s) with s in [0,1], get_ai_prediction
\* returns s when the label denotes fake/deepfake and 1-s when it denotes
\* real; the returned value lies in [0,1] on every path, the placeholder and
\* error paths included.
C21_NormalisedProbability ==
    ret.fn = "get_ai_prediction" =>
        /\ ret.via \in { "cloud", "local" } =>
               /\ EngineUsed.kind = "ok"
               /\ DenotesFake(EngineUsed.label) => ret.value = EngineUsed.score
               /\ DenotesReal(EngineUsed.label) =>
                      ret.value = 1000 - EngineUsed.score
        /\ ret.value >= 0 /\ ret.value <= 1000

\* A cloud result labelled real with score 0.3 was reported as 0.7.
C21_Witness ==
    /\ ret.fn = "get_ai_prediction" /\ ret.via = "cloud"
    /\ call.cloud = Engine("ok", "realism", 300)
    /\ ret.value = 700

\* ------------------------------------------------- claims on the clean-up

\* process_video_pipeline has returned, by either of its returns.
VideoRunEnded == media = "video" /\ pc = "done" /\ outcome = "returned"

\* C22: after a video pipeline run ends, whether or not a frame raised during
\* extraction, the scan's processed folder with its intermediate frames and
\* face crops has been deleted, while the evidence thumbnails the run wrote
\* are still in the scan's thumbnails folder.  (cleanup_scan is called with
\* keep_video=True and reaches only get_scan_paths(scan_id).processed_folder:
\* the original media and other scans' trees are CleanupScan's concern in the
\* server model.)
C22_ProcessedFolderDeleted ==
    VideoRunEnded =>
        /\ processed_files = {}
        /\ ~processed_folder
        /\ \A i \in 1..Len(thumbnails) : thumbnails[i] \in thumb_files

\* ----------------------------------------- claims on recorded thumbnails

\* The thumbnail filenames the frames of a report name.
NamedThumbnails(r) ==
    { r.frame_data[i].thumbnail : i \in 1..Len(r.frame_data) } \ { NoThumbnail }

\* C23: in every persisted report, each thumbnail filename recorded in a
\* frame result names a file the run wrote into the scan's thumbnails
\* folder, and has_thumbnails is true only if at least one such file was
\* written (lite mode of the face locator and the mock mode included).
C23_RecordedThumbnailsExist ==
    \A r \in Rows :
        /\ NamedThumbnails(r) \subseteq thumb_files
        /\ r.has_thumbnails => thumb_files # {}

\* ------------------------------------------------- claims on the sampler

\* The stream was opened and its frame rate read.
StreamOpened == media = "video" /\ cv2 /\ cap.opened /\ pc # "start"

\* N of the claim: round(source frame rate), 30 when the rate is zero.
ClaimedPeriod ==
    IF cap.fps = 0 THEN DefaultFps \div 100 ELSE RoundHalfEven(cap.fps, 100)

\* C17: the sampler analyses exactly the decoded frames whose index is a
\* multiple of N = round(source frame rate), N = 30 when the rate is unknown
\* or zero; N >= 1 always, so for every readable video with at least one
\* frame, frame 0 is analysed and sampling ends only at end of stream.
C17_SamplesEveryNth ==
    StreamOpened =>
        /\ skip_rate = ClaimedPeriod
        /\ skip_rate >= 1
        /\ (pc \in { "verdict", "save", "cleanup", "done" } /\ cap.frames >= 1
              /\ (exc_frame = NoFrame \/ skip_rate = 0))
             => (count >= 1 /\ analyzed_frames[1].timestamp = 0)


\* A non-empty region inside the frame.
Usable(r) == r.x1 < r.x2 /\ r.y1 < r.y2

\* The strategy ran without raising and its box gives a usable region.
LandmarkUsable ==
    /\ ~call.raises
    /\ call.detections # << >>
    /\ Usable(PaddedRegion(PixelBox(call.detections[1], call.width, call.height),
                           call.width, call.height))
CascadeUsable ==
    /\ ~call.raises
    /\ call.faces # << >>
    /\ Usable(PaddedRegion(call.faces[1], call.width, call.height))

\* C18: the strategies are tried in fixed order (landmark detector first,
\* cascade detector second), the second only when the first yields no usable
\* region; found=True is returned only together with a non-empty cropped
\* region; (no crop, found=False) is returned exactly when no strategy
\* yields a non-empty clamped region.
C18_FallbackChain ==
    ret.fn = "crop_face_advanced" =>
        /\ LandmarkUsable => ret.via = "mediapipe"
        /\ ret.via = "haar" => (~LandmarkUsable /\ CascadeUsable)
        /\ ret.found =>
             (ret.crop /\ CropSize(ret.region, call.width, call.height) > 0)
        /\ ~ret.found <=> ~(LandmarkUsable \/ CascadeUsable)
        /\ ~ret.found => ~ret.crop


\* ==================================================== evidence thumbnails
\* The thumbnail each pipeline records for an analysed frame, in pixels.

\* "max 400px width"
ThumbWidth == 400

Shape(w, h) == [w |-> w, h |-> h]

\* cv2.resize(frame, (640, 480)) of the video pipeline's no-face branch.
FullFrameShape == Shape(640, 480)

\* "if w > 400: scale = 400 / w; new_w, new_h = 400, int(h * scale)"
ThumbnailShape(im) ==
    IF im.w > ThumbWidth
    THEN Shape(ThumbWidth, TruncDiv(im.h * ThumbWidth, im.w))
    ELSE im

\* A recorded thumbnail: the name in the FrameResult, whether a file of that
\* name was written for this frame, its shape, and the analysed image's.
Thumbnail(name, written, shape, of) ==
    [fn |-> "thumbnail", name |-> name, written |-> written,
     shape |-> shape, of |-> of]

NoShape == Shape(0, 0)

\* Mock mode of either pipeline: the frame entry carries no thumbnail.
MockThumbnail == Thumbnail("none", FALSE, NoShape, NoShape)

\* video_processor.py, "C. Save thumbnail for report".
VideoThumbnail(crop) ==
    LET analysis_img == IF crop.found /\ crop.face THEN crop.shape
                        ELSE FullFrameShape
    IN  Thumbnail("thumb", TRUE, ThumbnailShape(analysis_img), analysis_img)

\* image_processor.py, "C. Create Thumbnail for UI".
ImageThumbnail(im, crop) ==
    IF crop.found
    THEN IF crop.face
         THEN Thumbnail("face_detected", TRUE, crop.shape, crop.shape)
         ELSE Thumbnail("face_detected", FALSE, NoShape, im)
    ELSE Thumbnail("thumbnail", TRUE, ThumbnailShape(im), im)

\* Shapes of decoded frames and images, and of face crops.
MediaShapes ==
    { Shape(200, 100), Shape(400, 300), Shape(401, 300), Shape(640, 480),
      Shape(1000, 800), Shape(1920, 1080), Shape(3000, 7) }
CropShapes == { Shape(100, 120), Shape(400, 400), Shape(500, 500), Shape(900, 700) }

\* What crop_face_advanced hands back for the frame: lite mode, no face, or
\* a crop that fits in the frame.
CropsOf(im) ==
    IF ~detector THEN { [found |-> TRUE, face |-> FALSE, shape |-> NoShape] }
    ELSE { [found |-> FALSE, face |-> FALSE, shape |-> NoShape] } \cup
         { [found |-> TRUE, face |-> TRUE, shape |-> c] :
             c \in { c \in CropShapes : c.w <= im.w /\ c.h <= im.h } }

ThumbCalls ==
    { [fn |-> "thumbnail", pipeline |-> p, shape |-> i] :
        p \in { "video", "image" }, i \in MediaShapes }

InitThumb ==
    /\ ConfigInit
    /\ ~client /\ ~ai_pipe /\ ~db_connected
    /\ RunInit
    /\ ServerIdle
    /\ call \in ThumbCalls
    /\ call.pipeline = media
    /\ ret = NoRet

\* One analysed frame of the pipeline `media`, up to its FrameResult.
RecordThumbnail ==
    /\ call.fn = "thumbnail"
    /\ ret = NoRet
    /\ IF ~cv2 THEN ret' = MockThumbnail
       ELSE \E crop \in CropsOf(call.shape) :
              ret' = IF media = "video" THEN VideoThumbnail(crop)
                     ELSE ImageThumbnail(call.shape, crop)
    /\ UNCHANGED << pipeline, server, call >>

NextThumb == RecordThumbnail

SpecThumb == InitThumb /\ [][NextThumb]_vars

\* C19: every analysed frame's FrameResult references an evidence thumbnail
\* of width at most 400 px with the analysed image's aspect ratio (to the
\* pixel), in both pipelines, for a face crop or the full frame.
C19_ThumbnailCapped ==
    ret.fn = "thumbnail" =>
        /\ ret.written
        /\ ret.shape.w <= ThumbWidth
        /\ ret.shape.h * ret.of.w <= ret.of.h * ret.shape.w
        /\ ret.of.h * ret.shape.w < (ret.shape.h + 1) * ret.of.w


\* ------------------------------------------------- claims on frame order

\* The frame index behind the i-th entry of a video's frame_data: the i-th
\* sampled frame of the stream, or i - 1 in mock mode.
SampledIndex(i) == IF cv2 THEN (i - 1) * skip_rate ELSE i - 1

\* The timestamp recorded for a frame index.
StampOf(index) == IF cv2 THEN Timestamp(index, fps) ELSE index * 100

InTemporalOrder(frames) ==
    /\ \A i \in 1..Len(frames) :
         /\ frames[i].timestamp >= 0
         /\ frames[i].timestamp = StampOf(SampledIndex(i))
    /\ \A i, j \in 1..Len(frames) :
         i < j => /\ SampledIndex(i) < SampledIndex(j)
                  /\ frames[i].timestamp <= frames[j].timestamp

\* C20: the frame_data of every video report is in temporal order: entries
\* appear in insertion order with strictly increasing sampled frame index
\* and non-decreasing, non-negative timestamps.
C20_FrameDataInTemporalOrder ==
    media = "video" =>
        /\ InTemporalOrder(analyzed_frames)
        /\ report # NoReport => report.frame_data = analyzed_frames
        /\ \A r \in Rows : InTemporalOrder(r.frame_data)

\* A stored video report with three analysed frames of a decoded stream.
C20_Witness ==
    /\ media = "video" /\ cv2
    /\ \E r \in Rows :
         /\ Len(r.frame_data) = 3
         /\ r.frame_data[3].timestamp > r.frame_data[2].timestamp

====
